---- MODULE Spec2Model ----
(***************************************************************************)
(* CocSnippet (src/snippets/snippet.ts): one expanded snippet template     *)
(* anchored at a buffer position.  The state is the anchor, the template   *)
(* tree (Snippets.TextmateSnippet) and the derived placeholder list.       *)
(* Strings are sequences of one-character strings.                         *)
(***************************************************************************)
EXTENDS Integers, Sequences, FiniteSets, TLC

VARIABLES position, tmSnippet, _placeholders, last, ops

vars == <<position, tmSnippet, _placeholders, last, ops>>

(***************************************************************************)
(* Bounds of the model.                                                    *)
(***************************************************************************)
MaxOps == 2            \* mutating calls per behaviour
MaxCoord == 1          \* anchor line and character stay in 0..MaxCoord
MaxValueLen == 4       \* a placeholder's text is edited only up to this length
MaxStack == 7          \* call-stack frames available to a recursive lookup
MaxNavIndex == 3       \* largest index argument given to a lookup

NL == "\n"

Max(S) == CHOOSE x \in S : \A y \in S : y <= x
Min(S) == CHOOSE x \in S : \A y \in S : x <= y

(***************************************************************************)
(* The template tree: its nodes in document (pre-)order, each with its     *)
(* nesting depth.  A placeholder's children are the nodes that follow it   *)
(* with a greater depth.                                                   *)
(***************************************************************************)
Txt(d, s) ==
  [kind |-> "text", depth |-> d, text |-> s, index |-> 0,
   final |-> FALSE, transform |-> FALSE, options |-> <<>>]

Placeholder(d, i, tr) ==
  [kind |-> "ph", depth |-> d, text |-> <<>>, index |-> i,
   final |-> (i = 0), transform |-> tr, options |-> <<>>]

Choice(d, opts) ==
  [kind |-> "choice", depth |-> d, text |-> opts[1], index |-> 0,
   final |-> FALSE, transform |-> FALSE, options |-> opts]

RECURSIVE Render(_)
Render(t) == IF t = <<>> THEN <<>> ELSE Head(t).text \o Render(Tail(t))

SubEnd(t, i) ==
  Max({j \in i..Len(t) : \A k \in (i + 1)..j : t[k].depth > t[i].depth})

MarkerToString(t, i) == Render(SubSeq(t, i, SubEnd(t, i)))

offset(t, i) == Len(Render(SubSeq(t, 1, i - 1)))

placeholders(t) ==
  SelectSeq([i \in 1..Len(t) |-> i], LAMBDA i : t[i].kind = "ph")

maxIndexNumber(t) ==
  Max({0} \cup {t[i].index : i \in {j \in 1..Len(t) : t[j].kind = "ph"}})

(***************************************************************************)
(* TextDocument.positionAt for a document whose lines end in "\n".         *)
(***************************************************************************)
positionAt(content, off) ==
  LET nls == {k \in 1..off : content[k] = NL}
  IN  [line |-> Cardinality(nls),
       character |-> IF nls = {} THEN off ELSE off - Max(nls)]

Pos(l, c) == [line |-> l, character |-> c]
Rng(s, e) == [start |-> s, end |-> e]

(***************************************************************************)
(* CocSnippet.update: the placeholder list derived from tree and anchor.   *)
(***************************************************************************)
ViewStart_AddsCharacter(t, i, anchor) ==
  LET p == positionAt(Render(t), offset(t, i))
  IN  Pos(anchor.line + p.line, anchor.character + p.character)

ViewStart(t, i, anchor) ==
  LET p == positionAt(Render(t), offset(t, i))
  IN  Pos(anchor.line + p.line,
          IF p.line = 0 THEN anchor.character + p.character ELSE p.character)

ViewChoice(t, i) ==
  IF i < Len(t) /\ t[i + 1].kind = "choice" /\ t[i + 1].depth > t[i].depth
  THEN t[i + 1].options ELSE <<>>

View_LastIsFinal(t, i, idx, anchor) ==
  LET start == ViewStart(t, i, anchor)
      value == MarkerToString(t, i)
  IN  [range |-> Rng(start, Pos(start.line, start.character + Len(value))),
       transform |-> t[i].transform,
       line |-> start.line,
       id |-> idx,
       index |-> t[i].index,
       value |-> value,
       isFinalTabstop |-> (t[i].index = maxIndexNumber(t)),
       choice |-> ViewChoice(t, i)]

View_EndFromAnchor(t, i, idx, anchor) ==
  LET start == ViewStart(t, i, anchor)
      value == MarkerToString(t, i)
      e == positionAt(Render(t), offset(t, i) + Len(value))
  IN  [range |-> Rng(start, Pos(anchor.line + e.line, anchor.character + e.character)),
       transform |-> t[i].transform,
       line |-> start.line,
       id |-> idx,
       index |-> t[i].index,
       value |-> value,
       isFinalTabstop |-> t[i].final,
       choice |-> ViewChoice(t, i)]

View_IdIsIndex(t, i, idx, anchor) ==
  LET start == ViewStart(t, i, anchor)
      value == MarkerToString(t, i)
  IN  [range |-> Rng(start, Pos(start.line, start.character + Len(value))),
       transform |-> t[i].transform,
       line |-> start.line,
       id |-> t[i].index,
       index |-> t[i].index,
       value |-> value,
       isFinalTabstop |-> t[i].final,
       choice |-> ViewChoice(t, i)]

View(t, i, idx, anchor) ==
  LET start == ViewStart(t, i, anchor)
      value == MarkerToString(t, i)
  IN  [range |-> Rng(start, Pos(start.line, start.character + Len(value))),
       transform |-> t[i].transform,
       line |-> start.line,
       id |-> idx,
       index |-> t[i].index,
       value |-> value,
       isFinalTabstop |-> t[i].final,
       choice |-> ViewChoice(t, i)]

update(t, anchor) ==
  LET phs == placeholders(t)
  IN  [k \in 1..Len(phs) |-> View(t, phs[k], k - 1, anchor)]

(***************************************************************************)
(* Templates a snippet is constructed from, as the parser delivers them    *)
(* with a final tabstop appended when the template has none.               *)
(***************************************************************************)
Templates ==
  { \* foo(${1:bar}, ${2:baz})$0
    << Txt(0, <<"f", "o", "o", "(">>), Placeholder(0, 1, FALSE), Txt(1, <<"b", "a", "r">>),
       Txt(0, <<",", " ">>), Placeholder(0, 2, FALSE), Txt(1, <<"b", "a", "z">>),
       Txt(0, <<")">>), Placeholder(0, 0, FALSE) >>,
    \* $1 and ${1/.*/[&]/}
    << Placeholder(0, 1, FALSE), Txt(0, <<" ", "a", "n", "d", " ">>),
       Placeholder(0, 1, TRUE), Placeholder(0, 0, FALSE) >>,
    \* ${1/.*/[&]/}${1:a}$1
    << Placeholder(0, 1, TRUE), Placeholder(0, 1, FALSE), Txt(1, <<"a">>),
       Placeholder(0, 1, FALSE), Placeholder(0, 0, FALSE) >>,
    \* ${1:a}${3:c}$0 with a line break before the final tabstop
    << Placeholder(0, 1, FALSE), Txt(1, <<"a">>), Placeholder(0, 3, FALSE),
       Txt(1, <<"c">>), Txt(0, <<NL>>), Placeholder(0, 0, FALSE) >>,
    \* ${1:b}, line break, a$1
    << Placeholder(0, 1, FALSE), Txt(1, <<"b">>), Txt(0, <<NL, "a">>),
       Placeholder(0, 1, FALSE), Placeholder(0, 0, FALSE) >>,
    \* ${1:a${2:b}}$1
    << Placeholder(0, 1, FALSE), Txt(1, <<"a">>), Placeholder(1, 2, FALSE),
       Txt(2, <<"b">>), Placeholder(0, 1, FALSE), Placeholder(0, 0, FALSE) >>,
    \* ${1|a,b|}
    << Placeholder(0, 1, FALSE), Choice(1, << <<"a">>, <<"b">> >>),
       Placeholder(0, 0, FALSE) >>,
    \* ${1/.*/[&]/}
    << Placeholder(0, 1, TRUE), Placeholder(0, 0, FALSE) >>,
    \* ab
    << Txt(0, <<"a", "b">>), Placeholder(0, 0, FALSE) >> }

(***************************************************************************)
(* Lookups on the placeholder list.  None stands for "no value".           *)
(***************************************************************************)
None == [none |-> TRUE]

IsView(v) == "id" \in DOMAIN v

getPlaceholder_FirstOccurrence(list, index) ==
  LET occ == SelectSeq(list, LAMBDA o : o.index = index)
  IN  IF Len(occ) > 0 THEN occ[1] ELSE None

getPlaceholder(list, index) ==
  LET occ == SelectSeq(list, LAMBDA o : o.index = index)
      filtered == SelectSeq(occ, LAMBDA o : ~o.transform)
  IN  IF Len(filtered) > 0 THEN filtered[1]
      ELSE IF Len(occ) > 0 THEN occ[1] ELSE None

finalPlaceholder(list) ==
  LET f == SelectSeq(list, LAMBDA o : o.isFinalTabstop)
  IN  IF Len(f) > 0 THEN f[1] ELSE None

lastPlaceholder_Final(t, list) == finalPlaceholder(list)

lastPlaceholder(t, list) == getPlaceholder(list, maxIndexNumber(t))

(***************************************************************************)
(* TextmateSnippet.minIndexNumber: the second smallest tabstop index when  *)
(* there are several placeholders and the smallest is 0, else the smallest.*)
(***************************************************************************)
minIndexNumber(t) ==
  LET nodes == {j \in 1..Len(t) : t[j].kind = "ph"}
      zeros == {j \in nodes : t[j].index = 0}
      rest == nodes \ zeros
  IN  IF nodes = {} THEN 0
      ELSE IF Cardinality(nodes) > 1 /\ zeros # {}
      THEN IF Cardinality(zeros) > 1 THEN 0 ELSE Min({t[j].index : j \in rest})
      ELSE Min({t[j].index : j \in nodes})

firstPlaceholder(t, list) == getPlaceholder(list, minIndexNumber(t))

isPlainText(list) == \A k \in 1..Len(list) : list[k].isFinalTabstop

(***************************************************************************)
(* String.prototype.slice with one bound, and Transform.resolve for the    *)
(* transform /.*/[&]/ (the dot does not match a line break).               *)
(***************************************************************************)
SliceTo(s, e) ==
  LET to == IF e < 0 THEN Max({Len(s) + e, 0}) ELSE Min({e, Len(s)})
  IN  SubSeq(s, 1, to)

SliceFrom(s, b) ==
  LET from == IF b < 0 THEN Max({Len(s) + b, 0}) ELSE Min({b, Len(s)})
  IN  SubSeq(s, from + 1, Len(s))

resolve(val) ==
  LET nls == {k \in 1..Len(val) : val[k] = NL}
      stop == IF nls = {} THEN Len(val) ELSE Min(nls) - 1
  IN  <<"[">> \o SubSeq(val, 1, stop) \o <<"]">> \o SubSeq(val, stop + 1, Len(val))

(***************************************************************************)
(* TextmateSnippet.updatePlaceholder(id, val): overwrites the text of the  *)
(* occurrence at list position id and returns the text it now renders.     *)
(***************************************************************************)
tmUpdatePlaceholder(t, id, val) ==
  LET phs == placeholders(t)
  IN  IF id < 0 \/ id >= Len(phs)
      THEN [tree |-> t, text |-> val, ok |-> FALSE]
      ELSE LET n == phs[id + 1]
               newText == IF t[n].transform THEN resolve(val) ELSE val
           IN  [tree |-> SubSeq(t, 1, n) \o <<Txt(t[n].depth + 1, newText)>>
                           \o SubSeq(t, SubEnd(t, n) + 1, Len(t)),
                text |-> newText, ok |-> TRUE]

(***************************************************************************)
(* CocSnippet.setPlaceholderValue and CocSnippet.updatePlaceholder, as     *)
(* functions of (tree, list, anchor) to the same plus the returned edits.  *)
(***************************************************************************)
setPlaceholderValue_NoUpdate(t, list, anchor, id, val) ==
  LET r == tmUpdatePlaceholder(t, id, val)
  IN  [tree |-> r.tree, list |-> list]

setPlaceholderValue(t, list, anchor, id, val) ==
  LET r == tmUpdatePlaceholder(t, id, val)
  IN  [tree |-> r.tree, list |-> update(r.tree, anchor)]

SplicedText_NoEndPart(placeholder, edit) ==
  SliceTo(placeholder.value,
          edit.range.start.character - placeholder.range.start.character)
    \o edit.newText

SplicedText(placeholder, edit) ==
  LET pRange == placeholder.range
      value == placeholder.value
      endPart == IF pRange.end.character > edit.range.end.character
                 THEN SliceFrom(value, edit.range.end.character - pRange.end.character)
                 ELSE <<>>
  IN  SliceTo(value, edit.range.start.character - pRange.start.character)
        \o edit.newText \o endPart

RECURSIVE UpdateOthers(_, _, _, _)
UpdateOthers_AlwaysPush(t, others, newText, edits) ==
  IF others = <<>> THEN [tree |-> t, edits |-> edits]
  ELSE LET p == Head(others)
           r == tmUpdatePlaceholder(t, p.id, newText)
       IN  UpdateOthers(r.tree, Tail(others), newText,
                        Append(edits, [range |-> p.range, newText |-> r.text]))

UpdateOthers(t, others, newText, edits) ==
  IF others = <<>> THEN [tree |-> t, edits |-> edits]
  ELSE LET p == Head(others)
           r == tmUpdatePlaceholder(t, p.id, newText)
       IN  UpdateOthers(r.tree, Tail(others), newText,
                        IF r.text # p.value
                        THEN Append(edits, [range |-> p.range, newText |-> r.text])
                        ELSE edits)

updatePlaceholder_StaleRanges(t, list, anchor, placeholder, edit) ==
  LET newText == SplicedText(placeholder, edit)
      s == setPlaceholderValue(t, list, anchor, placeholder.id, newText)
      others == SelectSeq(s.list, LAMBDA o : o.index = placeholder.index
                                              /\ o.id # placeholder.id)
  IN  IF others = <<>>
      THEN [tree |-> s.tree,
            list |-> [k \in 1..Len(list) |->
                        IF k = placeholder.id + 1 THEN s.list[k] ELSE list[k]],
            edits |-> <<>>, early |-> TRUE, newText |-> newText]
      ELSE LET r == UpdateOthers(s.tree, others, newText, <<>>)
           IN  [tree |-> r.tree, list |-> update(r.tree, anchor), edits |-> r.edits,
                early |-> FALSE, newText |-> newText]

updatePlaceholder(t, list, anchor, placeholder, edit) ==
  LET newText == SplicedText(placeholder, edit)
      s == setPlaceholderValue(t, list, anchor, placeholder.id, newText)
      others == SelectSeq(s.list, LAMBDA o : o.index = placeholder.index
                                              /\ o.id # placeholder.id)
  IN  IF others = <<>>
      THEN [tree |-> s.tree, list |-> s.list, edits |-> <<>>, early |-> TRUE,
            newText |-> newText]
      ELSE LET r == UpdateOthers(s.tree, others, newText, <<>>)
           IN  [tree |-> r.tree, list |-> update(r.tree, anchor), edits |-> r.edits,
                early |-> FALSE, newText |-> newText]

EditTexts == {<<>>, <<"X">>, <<NL>>}

Strip(r) == [f \in DOMAIN r \ {"prev"} |-> r[f]]

UpdatePlaceholder ==
  /\ ops < MaxOps
  /\ \E k \in 1..Len(_placeholders), newText \in EditTexts :
       LET p == _placeholders[k]
       IN  /\ ~p.transform
           /\ \E s \in p.range.start.character..p.range.end.character :
                \E e \in s..p.range.end.character :
                  LET edit == [range |-> Rng(Pos(p.line, s), Pos(p.line, e)),
                               newText |-> newText]
                      r == updatePlaceholder(tmSnippet, _placeholders, position, p, edit)
                  IN  /\ Len(r.newText) <= MaxValueLen
                      /\ tmSnippet' = r.tree
                      /\ _placeholders' = r.list
                      /\ last' = [op |-> "updatePlaceholder", placeholder |-> p,
                                  edit |-> edit, newText |-> r.newText,
                                  edits |-> r.edits, early |-> r.early,
                                  preTree |-> tmSnippet,
                                  prePlaceholders |-> _placeholders]
  /\ ops' = ops + 1
  /\ UNCHANGED position

NoOp == [op |-> "init"]

Init ==
  /\ tmSnippet \in Templates
  /\ position \in {Pos(0, 0), Pos(MaxCoord, MaxCoord)}
  /\ _placeholders = update(tmSnippet, position)
  /\ last = NoOp
  /\ ops = 0

(***************************************************************************)
(* adjustPosition(characterCount, lineCount)                               *)
(***************************************************************************)
adjustPosition_Clamped(t, anchor, characterCount, lineCount) ==
  LET moved == Pos(Max({0, anchor.line + lineCount}),
                   Max({0, anchor.character + characterCount}))
  IN  [position |-> moved, list |-> update(t, moved)]

adjustPosition(t, anchor, characterCount, lineCount) ==
  LET moved == Pos(anchor.line + lineCount, anchor.character + characterCount)
  IN  [position |-> moved, list |-> update(t, moved)]

InCoords(p) == p.line \in 0..MaxCoord /\ p.character \in 0..MaxCoord

AdjustPosition ==
  /\ ops < MaxOps
  /\ \E dc \in -MaxCoord..MaxCoord, dl \in -MaxCoord..MaxCoord :
       LET r == adjustPosition(tmSnippet, position, dc, dl)
       IN  /\ InCoords(r.position)
           /\ position' = r.position
           /\ _placeholders' = r.list
           /\ last' = [op |-> "adjustPosition", dc |-> dc, dl |-> dl,
                       prePosition |-> position, prePlaceholders |-> _placeholders,
                       prev |-> Strip(last)]
  /\ ops' = ops + 1
  /\ UNCHANGED tmSnippet

(***************************************************************************)
(* getChangedPosition(start, edit): the shift an edit that ends at or      *)
(* before start induces on start; zero for any other edit.                 *)
(***************************************************************************)
comparePosition(p, q) ==
  IF p.line < q.line \/ (p.line = q.line /\ p.character < q.character) THEN -1
  ELSE IF p = q THEN 0 ELSE 1

getChangedPosition(start, edit) ==
  LET range == edit.range
      newText == edit.newText
      nls == {k \in 1..Len(newText) : newText[k] = NL}
      lastLineLen == IF nls = {} THEN Len(newText) ELSE Len(newText) - Max(nls)
      lineCount == (Cardinality(nls) + 1) - (range.end.line - range.start.line) - 1
      single == range.start.line = range.end.line /\ lineCount = 0
      removed == IF single THEN range.end.character - range.start.character
                 ELSE range.end.character
      added == IF single THEN Len(newText) ELSE lastLineLen
  IN  IF comparePosition(range.end, start) <= 0
      THEN Pos(lineCount, IF range.end.line = start.line THEN added - removed ELSE 0)
      ELSE Pos(0, 0)

(***************************************************************************)
(* adjustTextEdit(edit).  this.range.start is the anchor.                  *)
(***************************************************************************)
adjustTextEdit_SwappedCounts(t, list, anchor, edit) ==
  LET changed == getChangedPosition(anchor, edit)
  IN  IF changed.line = 0 /\ changed.character = 0
      THEN [position |-> anchor, list |-> list, result |-> FALSE]
      ELSE LET r == adjustPosition(t, anchor, changed.line, changed.character)
           IN  [position |-> r.position, list |-> r.list, result |-> TRUE]

adjustTextEdit(t, list, anchor, edit) ==
  LET changed == getChangedPosition(anchor, edit)
  IN  IF changed.line = 0 /\ changed.character = 0
      THEN [position |-> anchor, list |-> list, result |-> FALSE]
      ELSE LET r == adjustPosition(t, anchor, changed.character, changed.line)
           IN  [position |-> r.position, list |-> r.list, result |-> TRUE]

BufferTexts == {<<>>, <<"X">>, <<NL>>}

AdjustTextEdit ==
  /\ ops < MaxOps
  /\ \E sl \in 0..MaxCoord, sc \in 0..MaxCoord, el \in 0..MaxCoord, ec \in 0..MaxCoord,
        newText \in BufferTexts :
       LET edit == [range |-> Rng(Pos(sl, sc), Pos(el, ec)), newText |-> newText]
           r == adjustTextEdit(tmSnippet, _placeholders, position, edit)
       IN  /\ comparePosition(edit.range.start, edit.range.end) <= 0
           /\ InCoords(r.position)
           /\ position' = r.position
           /\ _placeholders' = r.list
           /\ last' = [op |-> "adjustTextEdit", edit |-> edit, result |-> r.result,
                       prePosition |-> position, prePlaceholders |-> _placeholders]
  /\ ops' = ops + 1
  /\ UNCHANGED tmSnippet

(***************************************************************************)
(* TextmateSnippet.insertSnippet(snippet, id, offset, insertFinal): the    *)
(* occurrence at list position id is replaced by its own text with the     *)
(* parsed child template spliced in at offset, followed by a fresh marker  *)
(* when insertFinal; the child's tabstops are numbered after the           *)
(* occurrence's index and the later tabstops of the tree make room.        *)
(* Returns the id of the first placeholder it introduced.                  *)
(***************************************************************************)
Renumber(nodes, d, by) ==
  [k \in 1..Len(nodes) |->
     IF nodes[k].kind = "ph"
     THEN [nodes[k] EXCEPT !.depth = @ + d, !.index = @ + by, !.final = FALSE]
     ELSE [nodes[k] EXCEPT !.depth = @ + d]]

TextNode(d, s) == IF s = <<>> THEN <<>> ELSE <<Txt(d, s)>>

tmInsertSnippet(t, snippet, id, off, insertFinal) ==
  LET phs == placeholders(t)
      n == phs[id + 1]
      d == t[n].depth
      index == t[n].index
      text == MarkerToString(t, n)
      maxAdded == maxIndexNumber(snippet)
      totalAdd == maxAdded + (IF insertFinal THEN 1 ELSE 0)
      marker == [Placeholder(d, index + maxAdded + 1, FALSE) EXCEPT !.final = FALSE]
      nested == TextNode(d, SliceTo(text, off)) \o Renumber(snippet, d, index)
                  \o TextNode(d, SliceFrom(text, off))
                  \o (IF insertFinal THEN <<marker>> ELSE <<>>)
      moved == [k \in 1..Len(t) |->
                  IF t[k].kind = "ph" /\ t[k].index > index
                  THEN [t[k] EXCEPT !.index = @ + totalAdd] ELSE t[k]]
      introduced == Len(placeholders(nested)) > 0
  IN  [tree |-> SubSeq(moved, 1, n - 1) \o nested
                  \o SubSeq(moved, SubEnd(t, n) + 1, Len(t)),
       first |-> IF introduced THEN id ELSE -1]

(***************************************************************************)
(* insertSnippet(placeholder, snippet, position)                           *)
(***************************************************************************)
insertSnippet_NextOffByOne(t, list, anchor, placeholder, snippet, pos) ==
  LET start == placeholder.range.start
      off == pos.character - start.character
      insertFinal == ~(list[placeholder.id + 1].range.start = pos)
      r == tmInsertSnippet(t, snippet, placeholder.id, off, insertFinal)
  IN  [tree |-> r.tree, list |-> update(r.tree, anchor), first |-> r.first,
       id |-> placeholder.id, offset |-> off, insertFinal |-> insertFinal]

insertSnippet_NoUpdate(t, list, anchor, placeholder, snippet, pos) ==
  LET start == placeholder.range.start
      off == pos.character - start.character
      hasNext == placeholder.id + 2 <= Len(list)
      insertFinal == ~(hasNext /\ list[placeholder.id + 2].range.start = pos)
      r == tmInsertSnippet(t, snippet, placeholder.id, off, insertFinal)
  IN  [tree |-> r.tree, list |-> list, first |-> r.first,
       id |-> placeholder.id, offset |-> off, insertFinal |-> insertFinal]

insertSnippet(t, list, anchor, placeholder, snippet, pos) ==
  LET start == placeholder.range.start
      off == pos.character - start.character
      hasNext == placeholder.id + 2 <= Len(list)
      insertFinal == ~(hasNext /\ list[placeholder.id + 2].range.start = pos)
      r == tmInsertSnippet(t, snippet, placeholder.id, off, insertFinal)
  IN  [tree |-> r.tree, list |-> update(r.tree, anchor), first |-> r.first,
       id |-> placeholder.id, offset |-> off, insertFinal |-> insertFinal]

ChildTemplates ==
  { \* $1
    << Placeholder(0, 1, FALSE) >>,
    \* x${1:y}
    << Txt(0, <<"x">>), Placeholder(0, 1, FALSE), Txt(1, <<"y">>) >> }

InsertSnippet ==
  /\ ops < MaxOps
  /\ \E k \in 1..Len(_placeholders), snippet \in ChildTemplates :
       LET p == _placeholders[k]
       IN  /\ ~p.isFinalTabstop
           /\ ~p.transform
           /\ \E c \in p.range.start.character..p.range.end.character :
                LET pos == Pos(p.range.start.line, c)
                    r == insertSnippet(tmSnippet, _placeholders, position, p, snippet, pos)
                IN  /\ tmSnippet' = r.tree
                    /\ _placeholders' = r.list
                    /\ last' = [op |-> "insertSnippet", placeholder |-> p,
                                snippet |-> snippet, position |-> pos,
                                id |-> r.id, offset |-> r.offset,
                                insertFinal |-> r.insertFinal, result |-> r.first,
                                preTree |-> tmSnippet,
                                prePlaceholders |-> _placeholders]
  /\ ops' = ops + 1
  /\ UNCHANGED position

(***************************************************************************)
(* getPrevPlaceholder(index) and getNextPlaceholder(index).  frame counts  *)
(* the call frames in use; a call that needs more than MaxStack frames     *)
(* ends in a stack overflow instead of a result.                           *)
(***************************************************************************)
Returned(v, frame) == [result |-> v, frames |-> frame, overflow |-> FALSE]
Overflow(frame) == [result |-> None, frames |-> frame, overflow |-> TRUE]

RECURSIVE getPrevPlaceholder(_, _, _, _)
getPrevPlaceholder_Final(t, list, index, frame) ==
  IF index = 0 THEN Returned(finalPlaceholder(list), frame)
  ELSE LET prev == getPlaceholder(list, index - 1)
       IN  IF ~IsView(prev)
           THEN IF frame >= MaxStack THEN Overflow(frame)
                ELSE getPrevPlaceholder(t, list, index - 1, frame + 1)
           ELSE Returned(prev, frame)

getPrevPlaceholder(t, list, index, frame) ==
  IF index = 0 THEN Returned(lastPlaceholder(t, list), frame)
  ELSE LET prev == getPlaceholder(list, index - 1)
       IN  IF ~IsView(prev)
           THEN IF frame >= MaxStack THEN Overflow(frame)
                ELSE getPrevPlaceholder(t, list, index - 1, frame + 1)
           ELSE Returned(prev, frame)

RECURSIVE getNextPlaceholder(_, _, _, _)
getNextPlaceholder_NoStep(t, list, index, frame) ==
  IF index = maxIndexNumber(t) THEN Returned(finalPlaceholder(list), frame)
  ELSE LET next == getPlaceholder(list, index + 1)
       IN  IF ~IsView(next) THEN Returned(finalPlaceholder(list), frame)
           ELSE Returned(next, frame)

getNextPlaceholder_Last(t, list, index, frame) ==
  IF index = maxIndexNumber(t) THEN Returned(lastPlaceholder(t, list), frame)
  ELSE LET next == getPlaceholder(list, index + 1)
       IN  IF ~IsView(next)
           THEN IF frame >= MaxStack THEN Overflow(frame)
                ELSE getNextPlaceholder(t, list, index + 1, frame + 1)
           ELSE Returned(next, frame)

getNextPlaceholder(t, list, index, frame) ==
  IF index = maxIndexNumber(t) THEN Returned(finalPlaceholder(list), frame)
  ELSE LET next == getPlaceholder(list, index + 1)
       IN  IF ~IsView(next)
           THEN IF frame >= MaxStack THEN Overflow(frame)
                ELSE getNextPlaceholder(t, list, index + 1, frame + 1)
           ELSE Returned(next, frame)

NavIndices == -1..MaxNavIndex

GetPrevPlaceholder ==
  /\ \E index \in NavIndices :
       last' = [op |-> "getPrevPlaceholder", index |-> index,
                out |-> getPrevPlaceholder(tmSnippet, _placeholders, index, 1)]
  /\ UNCHANGED <<position, tmSnippet, _placeholders, ops>>

GetNextPlaceholder ==
  /\ \E index \in NavIndices :
       last' = [op |-> "getNextPlaceholder", index |-> index,
                out |-> getNextPlaceholder(tmSnippet, _placeholders, index, 1)]
  /\ UNCHANGED <<position, tmSnippet, _placeholders, ops>>

Next ==
  \/ AdjustPosition
  \/ AdjustTextEdit
  \/ UpdatePlaceholder
  \/ InsertSnippet

Spec == Init /\ [][Next]_vars

\* The same calls followed by navigation lookups.  A lookup writes nothing a
\* later call reads, so the calls made after one reach the states they reach
\* without it; the lookups are explored from every state the calls leave.
Looked == last.op \in {"getPrevPlaceholder", "getNextPlaceholder"}

NextNav ==
  \/ ~Looked /\ AdjustPosition
  \/ ~Looked /\ AdjustTextEdit
  \/ ~Looked /\ UpdatePlaceholder
  \/ ~Looked /\ InsertSnippet
  \/ GetPrevPlaceholder
  \/ GetNextPlaceholder

SpecNav == Init /\ [][NextNav]_vars

(***************************************************************************)
(* The read-only members.  Each is an operator of the state it reads and   *)
(* an action that records the argument and the returned value in last and  *)
(* writes nothing else.                                                    *)
(***************************************************************************)
getPlaceholderById(list, id) ==
  LET f == SelectSeq(list, LAMBDA o : o.id = id)
  IN  IF Len(f) > 0 THEN f[1] ELSE None

GetPlaceholderById ==
  /\ \E id \in -1..Len(_placeholders) :
       last' = [op |-> "getPlaceholderById", id |-> id,
                result |-> getPlaceholderById(_placeholders, id)]
  /\ UNCHANGED <<position, tmSnippet, _placeholders, ops>>

GetPlaceholder ==
  /\ \E index \in NavIndices :
       last' = [op |-> "getPlaceholder", index |-> index,
                result |-> getPlaceholder(_placeholders, index)]
  /\ UNCHANGED <<position, tmSnippet, _placeholders, ops>>

FirstPlaceholder ==
  /\ last' = [op |-> "firstPlaceholder",
              result |-> firstPlaceholder(tmSnippet, _placeholders)]
  /\ UNCHANGED <<position, tmSnippet, _placeholders, ops>>

LastPlaceholder ==
  /\ last' = [op |-> "lastPlaceholder",
              result |-> lastPlaceholder(tmSnippet, _placeholders)]
  /\ UNCHANGED <<position, tmSnippet, _placeholders, ops>>

FinalPlaceholder ==
  /\ last' = [op |-> "finalPlaceholder", result |-> finalPlaceholder(_placeholders)]
  /\ UNCHANGED <<position, tmSnippet, _placeholders, ops>>

IsPlainText ==
  /\ last' = [op |-> "isPlainText", result |-> isPlainText(_placeholders)]
  /\ UNCHANGED <<position, tmSnippet, _placeholders, ops>>

toString(t) == Render(t)

RenderToString ==
  /\ last' = [op |-> "toString", result |-> toString(tmSnippet)]
  /\ UNCHANGED <<position, tmSnippet, _placeholders, ops>>

\* The range accessor: the rendered text measured as a document of its own,
\* its end position added to the anchor.
range(t, anchor) ==
  LET content == toString(t)
      pos == positionAt(content, Len(content))
  IN  Rng(anchor, Pos(anchor.line + pos.line, anchor.character + pos.character))

GetRange_MovesAnchor ==
  /\ last' = [op |-> "range", result |-> range(tmSnippet, position)]
  /\ position' = range(tmSnippet, position).end
  /\ UNCHANGED <<tmSnippet, _placeholders, ops>>

GetRange ==
  /\ last' = [op |-> "range", result |-> range(tmSnippet, position)]
  /\ UNCHANGED <<position, tmSnippet, _placeholders, ops>>

\* util/position: 0 when the position lies in the range, ends included.
positionInRange(p, r) ==
  IF comparePosition(p, r.start) < 0 THEN -1
  ELSE IF comparePosition(p, r.end) > 0 THEN 1 ELSE 0

rangeInRange(r, outer) ==
  positionInRange(r.start, outer) = 0 /\ positionInRange(r.end, outer) = 0

getPlaceholderByRange(list, r) ==
  LET f == SelectSeq(list, LAMBDA o : rangeInRange(r, o.range))
  IN  IF Len(f) > 0 THEN f[1] ELSE None

MaxWidth == 1          \* widest range given to getPlaceholderByRange

GetPlaceholderByRange ==
  /\ \E l \in 0..MaxCoord, c \in 0..MaxCoord, w \in 0..MaxWidth :
       LET r == Rng(Pos(l, c), Pos(l, c + w))
       IN  last' = [op |-> "getPlaceholderByRange", range |-> r,
                    result |-> getPlaceholderByRange(_placeholders, r)]
  /\ UNCHANGED <<position, tmSnippet, _placeholders, ops>>

\* The calls followed by one read-only member.  A read leaves nothing a
\* later call or read depends on, so one read per behaviour reaches every
\* state reads can reach.
LookupOps ==
  {"getPlaceholderById", "getPlaceholder", "firstPlaceholder", "lastPlaceholder",
   "finalPlaceholder", "isPlainText", "toString", "range",
   "getPlaceholderByRange", "getPrevPlaceholder", "getNextPlaceholder"}

Queried == last.op \in LookupOps

NextLookup ==
  \/ ~Queried /\ AdjustPosition
  \/ ~Queried /\ AdjustTextEdit
  \/ ~Queried /\ UpdatePlaceholder
  \/ ~Queried /\ InsertSnippet
  \/ ~Queried /\ GetPlaceholderById
  \/ ~Queried /\ GetPlaceholder
  \/ ~Queried /\ FirstPlaceholder
  \/ ~Queried /\ LastPlaceholder
  \/ ~Queried /\ FinalPlaceholder
  \/ ~Queried /\ IsPlainText
  \/ ~Queried /\ RenderToString
  \/ ~Queried /\ GetRange
  \/ ~Queried /\ GetPlaceholderByRange
  \/ ~Queried /\ GetPrevPlaceholder
  \/ ~Queried /\ GetNextPlaceholder

SpecLookup == Init /\ [][NextLookup]_vars

(***************************************************************************)
(* Properties.                                                             *)
(***************************************************************************)

\* C1: once a call has returned, the stored placeholder list equals the list
\* update derives from the current template tree and the current anchor, on
\* every return path of updatePlaceholder as well.
ListIsDerived == _placeholders = update(tmSnippet, position)

\* C1 witness: updatePlaceholder took its early return after changing the tree.
EarlyReturnTaken ==
  /\ last.op = "updatePlaceholder"
  /\ last.early
  /\ last.preTree # tmSnippet

\* C2: exactly one placeholder view has isFinalTabstop = true, and
\* finalPlaceholder returns it.
Finals == {k \in 1..Len(_placeholders) : _placeholders[k].isFinalTabstop}

LookupsTerminate ==
  last.op \in {"getPrevPlaceholder", "getNextPlaceholder"} => ~last.out.overflow

(***************************************************************************)
(* What a call of updatePlaceholder is expected to leave, computed from    *)
(* the call's arguments and the list as it was before the call.            *)
(***************************************************************************)
Updated == last.op = "updatePlaceholder"

Recomputed(o, text) == IF o.transform THEN resolve(text) ELSE text

OthersBefore ==
  SelectSeq(last.prePlaceholders,
            LAMBDA o : o.index = last.placeholder.index /\ o.id # last.placeholder.id)

ChangedBefore ==
  SelectSeq(OthersBefore, LAMBDA o : o.value # Recomputed(o, last.newText))

ShiftRange(r, d) ==
  Rng(Pos(r.start.line, r.start.character + d), Pos(r.end.line, r.end.character + d))

PrimaryDelta == Len(last.newText) - Len(last.placeholder.value)

MirrorExample ==
  << Placeholder(0, 1, FALSE), Txt(0, <<" ", "a", "n", "d", " ">>),
     Placeholder(0, 1, TRUE), Placeholder(0, 0, FALSE) >>

ExampleEdit ==
  (/\ last.preTree = MirrorExample
   /\ last.placeholder.id = 0
   /\ last.newText = <<"X">>)
    => /\ Len(last.edits) = 1
       /\ last.edits[1].newText = <<"[", "X", "]">>

\* C6 as stated: with other occurrences of p's index, updatePlaceholder
\* returns one synthetic edit per other occurrence whose recomputed text
\* differs from its text before the call, carrying the new text and the range
\* the occurrence had before the call.
SyntheticEditsPriorRange ==
  (Updated /\ OthersBefore # <<>>)
    => /\ last.edits = [k \in 1..Len(ChangedBefore) |->
                          [range |-> ChangedBefore[k].range,
                           newText |-> Recomputed(ChangedBefore[k], last.newText)]]
       /\ ExampleEdit

\* C6 amended: the same edits, each carrying the range the occurrence's
\* prior text occupies once the primary edit is applied: with no line break
\* in the edited text that is its prior range, moved by the primary edit's
\* length change when the occurrence follows the edited one on the same line.
NodeOf(t, id) == placeholders(t)[id + 1]

TextAfterPrimary ==
  LET r == Render(last.preTree)
      at == offset(last.preTree, NodeOf(last.preTree, last.placeholder.id))
  IN  SubSeq(r, 1, at) \o last.newText
        \o SubSeq(r, at + Len(last.placeholder.value) + 1, Len(r))

RangeAfterPrimary(o) ==
  LET at == offset(last.preTree, NodeOf(last.preTree, o.id))
              + (IF o.id > last.placeholder.id THEN PrimaryDelta ELSE 0)
      p == positionAt(TextAfterPrimary, at)
      start == Pos(position.line + p.line,
                   IF p.line = 0 THEN position.character + p.character
                   ELSE p.character)
  IN  Rng(start, Pos(start.line, start.character + Len(o.value)))

NoLineBreak(text) == \A k \in 1..Len(text) : text[k] # NL

SyntheticEditsShiftedRange ==
  (Updated /\ OthersBefore # <<>>)
    => /\ last.edits = [k \in 1..Len(ChangedBefore) |->
                          [range |-> RangeAfterPrimary(ChangedBefore[k]),
                           newText |-> Recomputed(ChangedBefore[k], last.newText)]]
       /\ (NoLineBreak(last.newText) /\ NoLineBreak(last.placeholder.value))
            => \A k \in 1..Len(ChangedBefore) :
                 RangeAfterPrimary(ChangedBefore[k])
                   = ShiftRange(ChangedBefore[k].range,
                                IF /\ ChangedBefore[k].id > last.placeholder.id
                                   /\ ChangedBefore[k].line = last.placeholder.line
                                THEN PrimaryDelta ELSE 0)
       /\ ExampleEdit

\* C6 witness: a synthetic edit was returned for an occurrence the primary
\* edit had moved.
SyntheticEditMoved ==
  /\ Updated
  /\ Len(last.edits) > 0
  /\ Len(ChangedBefore) > 0
  /\ last.edits[1].range # ChangedBefore[1].range

\* C7: after updatePlaceholder(p, edit) with the edit inside p's range, the
\* edited occurrence renders p's old text before the edit's start offset,
\* then edit.newText, then p's old text after the edit's end offset, in its
\* value and in toString(); every other occurrence of the index holds its
\* recomputed text.
ExpectedText ==
  LET p == last.placeholder
      from == last.edit.range.start.character - p.range.start.character
      to == last.edit.range.end.character - p.range.start.character
  IN  SubSeq(p.value, 1, from) \o last.edit.newText \o SubSeq(p.value, to + 1, Len(p.value))

OccurrencesNow ==
  SelectSeq(_placeholders, LAMBDA o : o.index = last.placeholder.index)

RankBefore ==
  Cardinality({k \in 1..Len(last.prePlaceholders) :
                 /\ last.prePlaceholders[k].index = last.placeholder.index
                 /\ last.prePlaceholders[k].id <= last.placeholder.id})

RenderedAt(v) ==
  LET off == offset(tmSnippet, placeholders(tmSnippet)[v.id + 1])
  IN  SubSeq(Render(tmSnippet), off + 1, off + Len(v.value))

EditSpliced ==
  Updated
    => /\ Len(OccurrencesNow) = Len(OthersBefore) + 1
       /\ \A k \in 1..Len(OccurrencesNow) :
            LET o == OccurrencesNow[k]
            IN  /\ o.value = IF k = RankBefore THEN ExpectedText
                             ELSE Recomputed(o, ExpectedText)
                /\ RenderedAt(o) = o.value

\* C7 witness: an edit strictly inside a placeholder's text, with a mirror.
EditedInside ==
  /\ Updated
  /\ OthersBefore # <<>>
  /\ last.edit.range.start.character > last.placeholder.range.start.character
  /\ last.edit.range.end.character < last.placeholder.range.end.character

Ranges(list) == [k \in 1..Len(list) |-> list[k].range]

WentThereAndBack ==
  /\ last.op = "adjustPosition"
  /\ last.prev.op = "adjustPosition"
  /\ last.dc = -last.prev.dc
  /\ last.dl = -last.prev.dl

AdjustRoundTrip ==
  WentThereAndBack
    => /\ position = last.prev.prePosition
       /\ Ranges(_placeholders) = Ranges(last.prev.prePlaceholders)

\* C9 witness: a round trip by a non-zero delta on a template that spans lines.
RoundTripMade ==
  /\ WentThereAndBack
  /\ last.dc # 0
  /\ last.dl # 0
  /\ \E k \in 1..Len(_placeholders) : _placeholders[k].line > position.line

\* C10: insertSnippet asks the tree for the marker unless the view at list
\* position placeholder.id + 1 exists and starts at the insertion position;
\* it passes placeholder.id and the character offset from the placeholder's
\* start, re-derives the list and returns what the tree reports.
InsertDecision ==
  last.op = "insertSnippet"
    => LET p == last.placeholder
           pre == last.prePlaceholders
           noGap == /\ p.id + 2 <= Len(pre)
                    /\ pre[p.id + 2].range.start.line = last.position.line
                    /\ pre[p.id + 2].range.start.character = last.position.character
           r == tmInsertSnippet(last.preTree, last.snippet, p.id,
                                last.position.character - p.range.start.character,
                                ~noGap)
       IN  /\ last.insertFinal = ~noGap
           /\ last.id = p.id
           /\ last.offset = last.position.character - p.range.start.character
           /\ tmSnippet = r.tree
           /\ last.result = r.first
           /\ _placeholders = update(tmSnippet, position)

\* C10 witness: an insertion right where the next placeholder starts.
InsertedWithoutMarker ==
  /\ last.op = "insertSnippet"
  /\ ~last.insertFinal
  /\ last.offset > 0

\* C11: the views carry the ids 0..n-1 in document order (the view at list
\* position i has id i and is the view of the i-th placeholder node of the
\* tree), and getPlaceholderById(i) returns the view at list position i for
\* 0 <= i < n and no value for any other id.
IdsDense ==
  LET n == Len(_placeholders)
      phs == placeholders(tmSnippet)
  IN  /\ n = Len(phs)
      /\ \A k \in 1..n :
           /\ _placeholders[k].id = k - 1
           /\ _placeholders[k].index = tmSnippet[phs[k]].index
           /\ _placeholders[k].value = MarkerToString(tmSnippet, phs[k])
      /\ \A j, k \in 1..n :
           /\ j < k => offset(tmSnippet, phs[j]) <= offset(tmSnippet, phs[k])
           /\ j # k => _placeholders[j].id # _placeholders[k].id
      /\ {_placeholders[k].id : k \in 1..n} = 0..(n - 1)
      /\ last.op = "getPlaceholderById"
           => last.result = IF last.id \in 0..(n - 1)
                            THEN _placeholders[last.id + 1] ELSE None

\* C11 witness: the last view was fetched by id after a structural edit
\* that renumbered the views.
FetchedByIdAfterEdit ==
  /\ last.op = "getPlaceholderById"
  /\ tmSnippet \notin Templates
  /\ Len(_placeholders) > 4
  /\ last.id = Len(_placeholders) - 1
  /\ IsView(last.result)

\* C12: getPlaceholder(i) returns the first non-transform view of index i in
\* document order when there is one, also when a transform of i precedes it;
\* the first view of index i when all of them are transforms; and no value
\* when no view has index i.
Occurrences(i) == {k \in 1..Len(_placeholders) : _placeholders[k].index = i}

Editable(i) == {k \in Occurrences(i) : ~_placeholders[k].transform}

PrefersNonTransform ==
  last.op = "getPlaceholder"
    => last.result = IF Editable(last.index) # {}
                     THEN _placeholders[Min(Editable(last.index))]
                     ELSE IF Occurrences(last.index) # {}
                     THEN _placeholders[Min(Occurrences(last.index))]
                     ELSE None

\* C12 witness: the returned view follows a transform of the same index.
SkippedTransform ==
  /\ last.op = "getPlaceholder"
  /\ IsView(last.result)
  /\ ~last.result.transform
  /\ \E k \in Occurrences(last.index) :
       _placeholders[k].transform /\ _placeholders[k].id < last.result.id

\* C13 as stated: for foo(${1:bar}, ${2:baz})$0 anchored at (0,0),
\* firstPlaceholder has value "bar" and range (0,4)-(0,7), lastPlaceholder
\* has isFinalTabstop = true and the zero-width range (0,13)-(0,13), and
\* isPlainText is false.
TwoTabstops ==
  << Txt(0, <<"f", "o", "o", "(">>), Placeholder(0, 1, FALSE), Txt(1, <<"b", "a", "r">>),
     Txt(0, <<",", " ">>), Placeholder(0, 2, FALSE), Txt(1, <<"b", "a", "z">>),
     Txt(0, <<")">>), Placeholder(0, 0, FALSE) >>

OnExample == tmSnippet = TwoTabstops /\ position = Pos(0, 0)

FirstIsBar ==
  (OnExample /\ last.op = "firstPlaceholder")
    => /\ IsView(last.result)
       /\ last.result.value = <<"b", "a", "r">>
       /\ last.result.range = Rng(Pos(0, 4), Pos(0, 7))

NotPlain == (OnExample /\ last.op = "isPlainText") => last.result = FALSE

ExampleLastIsFinal ==
  /\ FirstIsBar
  /\ NotPlain
  /\ (OnExample /\ last.op = "lastPlaceholder")
       => /\ IsView(last.result)
          /\ last.result.isFinalTabstop
          /\ last.result.range = Rng(Pos(0, 13), Pos(0, 13))

\* C13 amended: firstPlaceholder and isPlainText as stated; lastPlaceholder
\* is the placeholder of the largest index, "baz" at (0,9)-(0,12) with
\* isFinalTabstop = false, and it is finalPlaceholder that has isFinalTabstop
\* = true and the zero-width range (0,13)-(0,13) at the end of the text.
\* In general lastPlaceholder is the final tabstop only when no tabstop is
\* numbered above 0, and isPlainText tells whether every view is final.
ExampleLastIsBaz ==
  /\ FirstIsBar
  /\ NotPlain
  /\ (OnExample /\ last.op = "lastPlaceholder")
       => /\ IsView(last.result)
          /\ last.result.value = <<"b", "a", "z">>
          /\ ~last.result.isFinalTabstop
          /\ last.result.range = Rng(Pos(0, 9), Pos(0, 12))
  /\ (OnExample /\ last.op = "finalPlaceholder")
       => /\ IsView(last.result)
          /\ last.result.isFinalTabstop
          /\ last.result.range = Rng(Pos(0, 13), Pos(0, 13))
          /\ Len(Render(tmSnippet)) = 13
  /\ last.op = "lastPlaceholder"
       => /\ IsView(last.result)
          /\ last.result.index = maxIndexNumber(tmSnippet)
          /\ last.result.isFinalTabstop <=> (maxIndexNumber(tmSnippet) = 0)
  /\ last.op = "isPlainText"
       => (last.result <=> maxIndexNumber(tmSnippet) = 0)

\* C13 witness: lastPlaceholder was read on the example at (0,0).
LastReadOnExample == OnExample /\ last.op = "lastPlaceholder"

\* C14: adjustTextEdit(edit) returns false and leaves the anchor and the
\* placeholder list as they were when the delta the edit induces at the
\* snippet's start is zero in line and character; otherwise it moves the
\* anchor by exactly that delta, re-derives the list and returns true.
DeltaAtStart == getChangedPosition(last.prePosition, last.edit)

AdjustTextEditResult ==
  last.op = "adjustTextEdit"
    => IF DeltaAtStart.line = 0 /\ DeltaAtStart.character = 0
       THEN /\ last.result = FALSE
            /\ position = last.prePosition
            /\ _placeholders = last.prePlaceholders
       ELSE /\ last.result = TRUE
            /\ position.line = last.prePosition.line + DeltaAtStart.line
            /\ position.character = last.prePosition.character + DeltaAtStart.character
            /\ _placeholders = update(tmSnippet, position)

\* C14 witness: an edit before the snippet moved its anchor.
AnchorMovedByEdit ==
  /\ last.op = "adjustTextEdit"
  /\ last.result
  /\ DeltaAtStart.character # 0
  /\ position # last.prePosition

\* C15: adjustPosition and adjustTextEdit change only the snippet's place in
\* the buffer: the tree, toString(), the number of views, each view's id,
\* index, value, isFinalTabstop, transform flag and choice list, and the
\* width of every range are after the call what they were before it.
Width(r) == r.end.character - r.start.character

Content(v) ==
  [id |-> v.id, index |-> v.index, value |-> v.value,
   isFinalTabstop |-> v.isFinalTabstop, transform |-> v.transform,
   choice |-> v.choice, width |-> Width(v.range)]

Contents(list) == [k \in 1..Len(list) |-> Content(list[k])]

AdjustKeepsContent ==
  [][last'.op \in {"adjustPosition", "adjustTextEdit"}
       => /\ tmSnippet' = tmSnippet
          /\ Render(tmSnippet') = Render(tmSnippet)
          /\ Len(_placeholders') = Len(_placeholders)
          /\ Contents(_placeholders') = Contents(_placeholders)
          /\ Contents(_placeholders') = Contents(last'.prePlaceholders)]_vars

\* C15 witness: the anchor was moved in line and character after a nested
\* insertion, on a snippet with a placeholder below its first line.
MovedAfterInsert ==
  /\ last.op = "adjustPosition"
  /\ last.dc # 0
  /\ last.dl # 0
  /\ last.prev.op = "insertSnippet"
  /\ \E k \in 1..Len(_placeholders) : _placeholders[k].line > position.line

\* C16: only adjustPosition, called directly or by adjustTextEdit, changes
\* the anchor; updatePlaceholder, insertSnippet, toString, the range accessor
\* and every lookup leave it as it was, and toString, the range accessor and
\* the lookups leave the tree and the placeholder list as they were too.
AnchorFrame ==
  [][/\ position' # position => last'.op \in {"adjustPosition", "adjustTextEdit"}
     /\ last'.op \in {"updatePlaceholder", "insertSnippet"} => position' = position
     /\ last'.op \in LookupOps
          => /\ position' = position
             /\ tmSnippet' = tmSnippet
             /\ _placeholders' = _placeholders]_vars

\* C16 witness: the range accessor was read on a snippet with text, after a
\* nested insertion away from the origin.
RangeReadAfterInsert ==
  /\ last.op = "range"
  /\ last.result.end # last.result.start
  /\ position # Pos(0, 0)
  /\ tmSnippet \notin Templates
  /\ Len(_placeholders) > 4

\* C17: with sparse numbering, getNextPlaceholder(i) for 0 <= i < maxIndex
\* returns getPlaceholder(j) for the smallest occupied index j > i, and
\* getPrevPlaceholder(i) for i > 0 returns getPlaceholder(j) for the largest
\* occupied index j < i, the index-0 final tabstop when no index in 1..i-1
\* is occupied; neither returns a view of index i.
Occupied == {_placeholders[k].index : k \in 1..Len(_placeholders)}

NextIsNearestAbove ==
  (/\ last.op = "getNextPlaceholder"
   /\ 0 <= last.index
   /\ last.index < maxIndexNumber(tmSnippet))
    => LET above == {j \in Occupied : j > last.index}
       IN  /\ above # {}
           /\ ~last.out.overflow
           /\ last.out.result = getPlaceholder(_placeholders, Min(above))
           /\ last.out.result.index = Min(above)
           /\ last.out.result.index # last.index

PrevIsNearestBelow ==
  (last.op = "getPrevPlaceholder" /\ last.index > 0)
    => LET below == {j \in Occupied : j < last.index}
       IN  /\ below # {}
           /\ ~last.out.overflow
           /\ last.out.result = getPlaceholder(_placeholders, Max(below))
           /\ last.out.result.index = Max(below)
           /\ last.out.result.index # last.index
           /\ (\A j \in 1..(last.index - 1) : j \notin Occupied)
                => /\ last.out.result.index = 0
                   /\ last.out.result.isFinalTabstop

StepsToNearestOccupied == NextIsNearestAbove /\ PrevIsNearestBelow

\* C17 witness: getNextPlaceholder stepped over an unoccupied index.
SteppedOverGap ==
  /\ last.op = "getNextPlaceholder"
  /\ 0 <= last.index
  /\ last.index < maxIndexNumber(tmSnippet)
  /\ ~last.out.overflow
  /\ last.out.frames > 1
  /\ last.out.result.index > last.index + 1

\* C18 as stated: after updatePlaceholder(p, edit) on a single-line template
\* whose placeholders are not nested and where p's index has no other
\* occurrence, with d = length(edit.newText) - length of the replaced range:
\* a placeholder that starts at or after p's old end is shifted by d, one
\* that ends at or before p's start keeps its range, p keeps its start and
\* is as wide as its new text, and no synthetic edit is returned.
Flat(t) == \A n \in 1..Len(t) : t[n].kind = "ph" => t[n].depth = 0

SoleFlatEdit ==
  /\ Updated
  /\ OthersBefore = <<>>
  /\ Flat(last.preTree)
  /\ NoLineBreak(Render(last.preTree))
  /\ NoLineBreak(last.edit.newText)

EditDelta ==
  Len(last.edit.newText)
    - (last.edit.range.end.character - last.edit.range.start.character)

EditedKeepsStart ==
  LET p == last.placeholder
      now == _placeholders[p.id + 1]
  IN  /\ Len(_placeholders) = Len(last.prePlaceholders)
      /\ now.range.start = p.range.start
      /\ Width(now.range) = Len(last.newText)
      /\ now.value = last.newText
      /\ last.edits = <<>>

BarnExample ==
  LET list == update(TwoTabstops, Pos(0, 0))
      edit == [range |-> Rng(Pos(0, 4), Pos(0, 7)), newText |-> <<"b", "a", "r", "n">>]
      r == updatePlaceholder(TwoTabstops, list, Pos(0, 0), list[1], edit)
  IN  /\ list[2].range = Rng(Pos(0, 9), Pos(0, 12))
      /\ r.list[2].range = Rng(Pos(0, 10), Pos(0, 13))
      /\ r.list[1].range = Rng(Pos(0, 4), Pos(0, 8))
      /\ r.edits = <<>>

ShiftByPlace ==
  SoleFlatEdit
    => /\ EditedKeepsStart
       /\ \A k \in 1..Len(last.prePlaceholders) :
            LET p == last.placeholder
                q == last.prePlaceholders[k]
            IN  q.id # p.id
                  => /\ q.range.start.character >= p.range.end.character
                          => _placeholders[k].range = ShiftRange(q.range, EditDelta)
                     /\ q.range.end.character <= p.range.start.character
                          => _placeholders[k].range = q.range
       /\ BarnExample

\* C18 amended: in the same case, the placeholders that follow p in document
\* order (they start at or after p's old end) are shifted by d and those
\* that precede p in document order (they end at or before p's start) keep
\* their range; an empty placeholder at the place of an empty p is shifted
\* or kept by its side of p in the document, not by its place.
ShiftByDocumentOrder ==
  SoleFlatEdit
    => /\ EditedKeepsStart
       /\ \A k \in 1..Len(last.prePlaceholders) :
            LET p == last.placeholder
                q == last.prePlaceholders[k]
            IN  /\ q.id > p.id
                     => /\ q.range.start.character >= p.range.end.character
                        /\ _placeholders[k].range = ShiftRange(q.range, EditDelta)
                /\ q.id < p.id
                     => /\ q.range.end.character <= p.range.start.character
                        /\ _placeholders[k].range = q.range
       /\ BarnExample

\* C18 witness: an edit that changed the length of a placeholder with a
\* placeholder before it and one after it.
EditedBetweenTwo ==
  /\ SoleFlatEdit
  /\ EditDelta # 0
  /\ last.placeholder.id > 0
  /\ last.placeholder.id + 1 < Len(last.prePlaceholders)

\* C19: a placeholder that starts at line l, character c of the rendered
\* text has, for the anchor (L, C), a range that starts at (L + l, C + c)
\* when l = 0 and at (L + l, c) when l > 0.  So adjustPosition(dc, 0) moves
\* the characters of exactly the placeholders on the first rendered line by
\* dc, and adjustPosition(0, dl) moves the line of every placeholder by dl.
LocalStart(k) ==
  positionAt(Render(tmSnippet), offset(tmSnippet, placeholders(tmSnippet)[k]))

MoveRange(r, dl, dc) ==
  Rng(Pos(r.start.line + dl, r.start.character + dc),
      Pos(r.end.line + dl, r.end.character + dc))

FirstLineTakesCharacter ==
  /\ \A k \in 1..Len(_placeholders) :
       /\ _placeholders[k].range.start.line = position.line + LocalStart(k).line
       /\ _placeholders[k].range.start.character
            = IF LocalStart(k).line = 0
              THEN position.character + LocalStart(k).character
              ELSE LocalStart(k).character
  /\ (last.op = "adjustPosition" /\ last.dl = 0)
       => \A k \in 1..Len(_placeholders) :
            /\ _placeholders[k].line = last.prePlaceholders[k].line
            /\ _placeholders[k].range
                 = MoveRange(last.prePlaceholders[k].range, 0,
                             IF LocalStart(k).line = 0 THEN last.dc ELSE 0)
  /\ (last.op = "adjustPosition" /\ last.dc = 0)
       => \A k \in 1..Len(_placeholders) :
            /\ _placeholders[k].line = last.prePlaceholders[k].line + last.dl
            /\ _placeholders[k].range
                 = MoveRange(last.prePlaceholders[k].range, last.dl, 0)

\* C19 witness: the anchor's character was moved under a snippet with
\* placeholders on its first line and below it.
CharacterMovedOverLines ==
  /\ last.op = "adjustPosition"
  /\ last.dc # 0
  /\ last.dl = 0
  /\ \E k \in 1..Len(_placeholders) : LocalStart(k).line = 0
  /\ \E k \in 1..Len(_placeholders) : LocalStart(k).line > 0

\* C20 as stated: the range accessor and the derived placeholder ranges
\* agree on where the rendered text ends, for every anchor and every
\* template: a placeholder whose text ends at the end of the rendered text
\* has range.end equal to the snippet's range.end, and every placeholder's
\* range lies within the snippet's range.
EndsWithText(k) ==
  LET n == placeholders(tmSnippet)[k]
  IN  offset(tmSnippet, n) + Len(MarkerToString(tmSnippet, n))
        = Len(Render(tmSnippet))

EndAtSnippetEnd ==
  last.op = "range"
    => \A k \in 1..Len(_placeholders) :
         EndsWithText(k) => _placeholders[k].range.end = last.result.end

InsideSnippet ==
  last.op = "range"
    => \A k \in 1..Len(_placeholders) :
         rangeInRange(_placeholders[k].range, last.result)

RangeEndsAgree == EndAtSnippetEnd /\ InsideSnippet
====
